---------------------------- MODULE Spec2Model ----------------------------
(***************************************************************************)
(* flake8-import-policy: the configuration model (config.py), the option   *)
(* parser (Plugin.parse_options) and the per-file evaluation (Plugin.run   *)
(* and the checks it calls) of src/flake8_import_policy/plugin.py.         *)
(*                                                                         *)
(* Encoding of Python values:                                              *)
(*   - str            a TLA+ string; f-strings are \o concatenations       *)
(*   - None (for str) the string "None" (no identifier is spelled None)    *)
(*   - bool | None    None is <<>>, a bool b is <<b>>                      *)
(*   - dict           a function on the set of its keys                    *)
(*   - list           a sequence                                           *)
(*   - a message      template.format(args) is <<code, arg, ...>>: the     *)
(*                    FIP code of the template followed by what fills its  *)
(*                    placeholders                                         *)
(***************************************************************************)
EXTENDS Naturals, Sequences, FiniteSets

VARIABLES
    \* ---- config.py: operands and result of one Override operation
    ov,          \* the Override the operation is called on
    sc,          \* the SourceConfig operand of Override.__or__
    upd,         \* the keyword arguments of Override.evolve
    merged,      \* what the last operation returned
    mpc,         \* "ready" | "or" | "evolve": the operation that has run
    \* ---- Plugin.parse_options
    options,     \* the option values flake8 hands over
    cls_config,  \* Plugin._config (class attribute): <<>> before parsing, then <<Config>>
    opc,         \* "ready", then "done" or the name of the exception raised
    \* ---- one Plugin instance and its run()
    config,      \* self._config
    filename,    \* self._filename, as a sequence of tokens
    tree,        \* self._tree: node id -> node
    pc,          \* "start" | "walk" | "done"
    todo,        \* the deque of ast.walk
    out,         \* the tuples run() has yielded so far, in order
    hist         \* history: for each element of out, which node and name made it

vars == <<ov, sc, upd, merged, mpc, options, cls_config, opc,
          config, filename, tree, pc, todo, out, hist>>

mergeVars == <<ov, sc, upd, merged, mpc>>
optVars   == <<options, cls_config, opc>>
runVars   == <<config, filename, tree, pc, todo, out, hist>>

-----------------------------------------------------------------------------
(* config.py *)

None == <<>>
Some(b) == <<b>>
NoneStr == "None"

Fields == {"allow_absolute", "allow_from_module", "allow_from_member"}

\* {**a, **b}
DictMerge(a, b) ==
    [k \in (DOMAIN a) \cup (DOMAIN b) |-> IF k \in DOMAIN b THEN b[k] ELSE a[k]]

EmptyDict == [k \in {} |-> FALSE]

\* SourceConfig(**d): every field defaults to False
SourceConfig(d) == [k \in Fields |-> IF k \in DOMAIN d THEN d[k] ELSE FALSE]

\* Override(**d): every field defaults to None
Override(d) == [k \in Fields |-> IF k \in DOMAIN d THEN Some(d[k]) ELSE None]

SourceConfigs == [Fields -> BOOLEAN]
Overrides == [Fields -> {None, Some(TRUE), Some(FALSE)}]

asdict(s) == s

omit_nones(o) == [k \in {f \in DOMAIN o : o[f] # None} |-> o[k][1]]

evolve(o, update) == Override(DictMerge(omit_nones(o), update))

\* the merge the other way round: the base rule wins over the override
OrBaseWins(o, source_config) ==
    SourceConfig(DictMerge(omit_nones(o), asdict(source_config)))

Or(o, source_config) == SourceConfig(DictMerge(asdict(source_config), omit_nones(o)))

\* the updates evolve can be given: any fields, any values
Updates == UNION {[S -> BOOLEAN] : S \in SUBSET Fields}

InitMerge ==
    /\ ov \in Overrides
    /\ sc \in SourceConfigs
    /\ upd \in Updates
    /\ merged = EmptyDict
    /\ mpc = "ready"

ApplyOr ==
    /\ mpc = "ready"
    /\ merged' = Or(ov, sc)
    /\ mpc' = "or"
    /\ UNCHANGED <<ov, sc, upd, optVars, runVars>>

ApplyEvolve ==
    /\ mpc = "ready"
    /\ merged' = evolve(ov, upd)
    /\ mpc' = "evolve"
    /\ UNCHANGED <<ov, sc, upd, optVars, runVars>>

NextMerge == ApplyOr \/ ApplyEvolve

-----------------------------------------------------------------------------
(* Plugin.parse_options *)

\* An option string is a sequence of tokens; the separator of its format is a
\* token of its own, so that str.split and str.partition have something to find.
RECURSIVE Split(_, _)
\* s.split(sep): the strings between the separators
Split(s, sep) ==
    IF s = <<>> THEN <<"">>
    ELSE LET rest == Split(Tail(s), sep)
         IN  IF Head(s) = sep THEN <<"">> \o rest
             ELSE <<Head(s) \o Head(rest)>> \o Tail(rest)

RECURSIVE Join(_, _)
\* sep.join(parts)
Join(sep, parts) ==
    IF parts = <<>> THEN ""
    ELSE IF Len(parts) = 1 THEN parts[1]
    ELSE parts[1] \o sep \o Join(sep, Tail(parts))

RECURSIVE Concat(_)
Concat(s) == IF s = <<>> THEN "" ELSE Head(s) \o Concat(Tail(s))

\* s.partition(sep): <<before, sep, after>>, or <<s, "", "">> without a separator
Partition(s, sep) ==
    IF \E i \in 1..Len(s) : s[i] = sep
    THEN LET i == CHOOSE j \in 1..Len(s) :
                      s[j] = sep /\ \A k \in 1..(j - 1) : s[k] # sep
         IN  <<Concat(SubSeq(s, 1, i - 1)), sep, Concat(SubSeq(s, i + 1, Len(s)))>>
    ELSE <<Concat(s), "", "">>

\* collections.defaultdict(config.Override): d[key]
DefaultGet(d, key) == IF key \in DOMAIN d THEN d[key] ELSE Override(EmptyDict)

Returned(v) == [exc |-> "None", value |-> <<v>>]
Raised(e)   == [exc |-> e, value |-> <<>>]

\* A call o.evolve(*args, **kwargs) against the signature evolve(self, **update):
\* the signature takes no positional argument besides self.
CallEvolve(o, args, kwargs) ==
    IF Len(args) > 0 THEN Raised("TypeError") ELSE Returned(evolve(o, kwargs))

RECURSIVE ParseOverrides(_, _)
\* the loop over options.import_policy_overrides, from the table built so far
ParseOverrides(list, overrides) ==
    IF list = <<>> THEN Returned(overrides)
    ELSE LET parts  == Split(Head(list), "-")
             module == parts[1]
             action == parts[2]
             policy == Join("_", SubSeq(parts, 3, Len(parts)))
             update == [k \in {"allow_" \o policy} |-> action = "allow"]
             call   == CallEvolve(DefaultGet(overrides, module), <<update>>, EmptyDict)
         IN  IF action \notin {"allow", "forbid"} THEN Raised("AssertionError")
             ELSE IF call.exc # "None" THEN call
             ELSE ParseOverrides(Tail(list),
                                 DictMerge(overrides, [k \in {module} |-> call.value[1]]))

RECURSIVE ParseAliases(_, _)
\* the loop over options.registered_import_aliases
ParseAliases(list, registered_aliases) ==
    IF list = <<>> THEN registered_aliases
    ELSE LET p == Partition(Head(list), "=")
         IN  ParseAliases(Tail(list),
                          DictMerge(registered_aliases, [k \in {p[1]} |-> p[3]]))

Rule(a, m, b) ==
    [allow_absolute |-> a, allow_from_module |-> m, allow_from_member |-> b]

\* config.Config's default for the field parse_options never passes
FutureDefault == Rule(TRUE, TRUE, TRUE)

parse_options(o) ==
    LET overrides == ParseOverrides(o.import_policy_overrides, EmptyDict)
    IN  IF overrides.exc # "None" THEN overrides
        ELSE Returned(
          [overrides |-> overrides.value[1],
           registered_aliases |-> ParseAliases(o.registered_import_aliases, EmptyDict),
           check_init |-> o.init_must_follow_import_policy,
           future |-> FutureDefault,
           stdlib |-> Rule(~o.forbid_stdlib_absolute,
                           o.allow_stdlib_from_module,
                           o.allow_stdlib_from_member),
           third_party |-> Rule(~o.forbid_third_party_absolute,
                                o.allow_third_party_from_module,
                                o.allow_third_party_from_member),
           first_party |-> Rule(~o.forbid_local_absolute,
                                ~o.forbid_local_from_module,
                                o.allow_local_from_member),
           max_relative_level |-> o.max_relative_level,
           allow_relative_from_module |-> ~o.forbid_relative_from_module,
           allow_relative_from_member |-> o.allow_relative_from_member])

\* ---- the option values the parser is tried on

\* how many --override-import-policy options one command line carries
MaxOverrideOptions == 2

OptionModules == {"typing", "os"}

\* the policy part of module-<allow|forbid>-policy, as the help text writes it
\* (typing-allow-from-member) and as the field is spelled (from_member)
PolicyTokens ==
    {<<"absolute">>, <<"from_module">>, <<"from_member">>,
     <<"from", "-", "module">>, <<"from", "-", "member">>}

OverrideStrings ==
    {<<m, "-", a, "-">> \o p : m \in OptionModules, a \in {"allow", "forbid"},
                              p \in PolicyTokens}

OverrideLists ==
    UNION {[1..n -> OverrideStrings] : n \in 0..MaxOverrideOptions}

AliasLists == {<<>>, << <<"os.path", "=", "al">> >>}

\* the add_options defaults, for the store_true flags and max-relative-level
DefaultOptions ==
    [import_policy_overrides |-> <<>>,
     registered_import_aliases |-> <<>>,
     init_must_follow_import_policy |-> FALSE,
     forbid_stdlib_absolute |-> FALSE,
     allow_stdlib_from_module |-> FALSE,
     allow_stdlib_from_member |-> FALSE,
     forbid_third_party_absolute |-> FALSE,
     allow_third_party_from_module |-> FALSE,
     allow_third_party_from_member |-> FALSE,
     forbid_local_absolute |-> FALSE,
     forbid_local_from_module |-> FALSE,
     allow_local_from_member |-> FALSE,
     max_relative_level |-> 1,
     forbid_relative_from_module |-> FALSE,
     allow_relative_from_member |-> FALSE]

OptionValues ==
    {[DefaultOptions EXCEPT !.import_policy_overrides = l,
                            !.registered_import_aliases = r,
                            !.init_must_follow_import_policy = i,
                            !.forbid_stdlib_absolute = f] :
        l \in OverrideLists, r \in AliasLists, i \in BOOLEAN, f \in BOOLEAN}

InitOptions ==
    /\ options \in OptionValues
    /\ cls_config = <<>>
    /\ opc = "ready"

ParseOptions ==
    /\ opc = "ready"
    /\ LET r == parse_options(options)
       IN  /\ opc' = IF r.exc = "None" THEN "done" ELSE r.exc
           /\ cls_config' = r.value
    /\ UNCHANGED <<options, mergeVars, runVars>>

NextOptions == ParseOptions

-----------------------------------------------------------------------------
(* The environment of one run: isort's classification and the importable modules *)

FUTURE_IMPORT_VIOLATION      == [code |-> "FIP000", slots |-> 0]
STDLIB_IMPORT_VIOLATION      == [code |-> "FIP001", slots |-> 1]
THIRD_PARTY_IMPORT_VIOLATION == [code |-> "FIP002", slots |-> 1]
FIRST_PARTY_IMPORT_VIOLATION == [code |-> "FIP003", slots |-> 1]
RELATIVE_IMPORT_VIOLATION    == [code |-> "FIP004", slots |-> 1]
UNREGISTERED_ALIAS_ABUSE     == [code |-> "FIP005", slots |-> 2]

\* template.format(*args): the code, then one argument per placeholder
Format(template, args) == <<template.code>> \o SubSeq(args, 1, template.slots)

\* isort.place_module, on the module paths the statements name; what isort does
\* not know falls into its default section, third party
place_module(module_name) ==
    CASE module_name = "__future__"           -> "FUTURE"
      [] module_name \in {"os", "os.path"}    -> "STDLIB"
      [] module_name \in {"pkg", "pkg.path"}  -> "FIRSTPARTY"
      [] OTHER                                -> "THIRDPARTY"

\* the dotted paths __import__ finds
ImportableModules ==
    {"__future__", "os", "os.path", "pytest", "pkg", "pkg.path", "pkg.local",
     "pkg.local.path"}

_is_module(full_module_name) == full_module_name \in ImportableModules

_determine_source_type(module_name) ==
    LET isort_section == place_module(module_name)
    IN  CASE isort_section = "FUTURE"      -> "FUTURE"
          [] isort_section = "STDLIB"      -> "STDLIB"
          [] isort_section = "THIRDPARTY"  -> "THIRD_PARTY"
          [] isort_section = "FIRSTPARTY"  -> "FIRST_PARTY"
          [] isort_section = "LOCALFOLDER" -> "FIRST_PARTY"

\* Plugin.__init__: self._config_by_source, self._error_by_source
_config_by_source(cfg, source_type) ==
    CASE source_type = "FUTURE"      -> cfg.future
      [] source_type = "STDLIB"      -> cfg.stdlib
      [] source_type = "THIRD_PARTY" -> cfg.third_party
      [] source_type = "FIRST_PARTY" -> cfg.first_party

_error_by_source(source_type) ==
    CASE source_type = "FUTURE"      -> FUTURE_IMPORT_VIOLATION
      [] source_type = "STDLIB"      -> STDLIB_IMPORT_VIOLATION
      [] source_type = "THIRD_PARTY" -> THIRD_PARTY_IMPORT_VIOLATION
      [] source_type = "FIRST_PARTY" -> FIRST_PARTY_IMPORT_VIOLATION

-----------------------------------------------------------------------------
(* The checks of one import node.  A check returns what its generator yields, *)
(* in order; each element carries, beside the message, the position in        *)
(* node.names of the name that made it and which check made it.               *)

Yield(msg, i, kind) == [msg |-> msg, name |-> i, kind |-> kind]

\* the lookup by top-level package instead of by the whole path
OverrideForPackage(cfg, source_module) ==
    LET package == CASE source_module = "os.path" -> "os"
                     [] source_module = "pkg.path" -> "pkg"
                     [] OTHER -> source_module
    IN  IF package \in DOMAIN cfg.overrides
        THEN cfg.overrides[package]
        ELSE Override(EmptyDict)

\* self._config.overrides.get(source_module, config.Override())
OverrideFor(cfg, source_module) ==
    IF source_module \in DOMAIN cfg.overrides
    THEN cfg.overrides[source_module]
    ELSE Override(EmptyDict)

_get_config_and_error_template(cfg, source_module) ==
    LET source_type == _determine_source_type(source_module)
        source_config == _config_by_source(cfg, source_type)
        override == OverrideFor(cfg, source_module)
    IN  [source_config |-> Or(override, source_config),
         error_template |-> _error_by_source(source_type)]

\* self._config.registered_aliases.get(module_name)
RegisteredAlias(cfg, module_name) ==
    IF module_name \in DOMAIN cfg.registered_aliases
    THEN cfg.registered_aliases[module_name]
    ELSE NoneStr

\* the check that lets an alias pass when the path has no registered alias
_check_alias_unregistered_passes(cfg, module_name, alias, i) ==
    IF module_name \in DOMAIN cfg.registered_aliases
       /\ cfg.registered_aliases[module_name] # alias
    THEN <<Yield(Format(UNREGISTERED_ALIAS_ABUSE, <<module_name, alias>>), i, "alias")>>
    ELSE <<>>

_check_alias(cfg, module_name, alias, i) ==
    IF RegisteredAlias(cfg, module_name) # alias
    THEN <<Yield(Format(UNREGISTERED_ALIAS_ABUSE, <<module_name, alias>>), i, "alias")>>
    ELSE <<>>

\* the turn that reads allow_from_module where allow_absolute is meant
AbsoluteNameWrongFlag(cfg, t, node, i) ==
    LET imported_module == t[node.children[i]]
        module_name == imported_module.name
        alias == imported_module.asname
        r == _get_config_and_error_template(cfg, module_name)
    IN  (IF ~r.source_config.allow_from_module
         THEN <<Yield(Format(r.error_template, <<module_name>>), i, "rule")>>
         ELSE <<>>)
        \o (IF alias # NoneStr THEN _check_alias(cfg, module_name, alias, i) ELSE <<>>)

\* the turn that checks the alias before the rule
AbsoluteNameAliasFirst(cfg, t, node, i) ==
    LET imported_module == t[node.children[i]]
        module_name == imported_module.name
        alias == imported_module.asname
        r == _get_config_and_error_template(cfg, module_name)
    IN  (IF alias # NoneStr THEN _check_alias(cfg, module_name, alias, i) ELSE <<>>)
        \o (IF ~r.source_config.allow_absolute
            THEN <<Yield(Format(r.error_template, <<module_name>>), i, "rule")>>
            ELSE <<>>)

\* one turn of the loop of _check_absolute_import, for node.names[i]
AbsoluteName(cfg, t, node, i) ==
    LET imported_module == t[node.children[i]]
        module_name == imported_module.name
        alias == imported_module.asname
        r == _get_config_and_error_template(cfg, module_name)
    IN  (IF ~r.source_config.allow_absolute
         THEN <<Yield(Format(r.error_template, <<module_name>>), i, "rule")>>
         ELSE <<>>)
        \o (IF alias # NoneStr THEN _check_alias(cfg, module_name, alias, i) ELSE <<>>)

RECURSIVE AbsoluteLoop(_, _, _, _)
AbsoluteLoop(cfg, t, node, i) ==
    IF i > Len(node.children) THEN <<>>
    ELSE AbsoluteName(cfg, t, node, i) \o AbsoluteLoop(cfg, t, node, i + 1)

_check_absolute_import(cfg, t, node) == AbsoluteLoop(cfg, t, node, 1)

\* the turn with the flag of a module read for a member and the other way round
FromNameFlagsSwapped(cfg, t, node, r, i) ==
    LET imported_object_alias == t[node.children[i]]
        source_module == node.module
        imported_object == imported_object_alias.name
        full_imported_object_path == source_module \o "." \o imported_object
        cite == "from " \o source_module \o " import " \o imported_object
        alias == imported_object_alias.asname
    IN  (IF _is_module(full_imported_object_path)
         THEN IF ~r.source_config.allow_from_member
              THEN <<Yield(Format(r.error_template, <<cite>>), i, "rule")>>
              ELSE <<>>
         ELSE IF ~r.source_config.allow_from_module
              THEN <<Yield(Format(r.error_template, <<cite>>), i, "rule")>>
              ELSE <<>>)
        \o (IF alias # NoneStr
            THEN _check_alias(cfg, full_imported_object_path, alias, i)
            ELSE <<>>)

\* one turn of the loop of _check_import_from, for node.names[i]
FromName(cfg, t, node, r, i) ==
    LET imported_object_alias == t[node.children[i]]
        source_module == node.module
        imported_object == imported_object_alias.name
        full_imported_object_path == source_module \o "." \o imported_object
        cite == "from " \o source_module \o " import " \o imported_object
        alias == imported_object_alias.asname
    IN  (IF _is_module(full_imported_object_path)
         THEN IF ~r.source_config.allow_from_module
              THEN <<Yield(Format(r.error_template, <<cite>>), i, "rule")>>
              ELSE <<>>
         ELSE IF ~r.source_config.allow_from_member
              THEN <<Yield(Format(r.error_template, <<cite>>), i, "rule")>>
              ELSE <<>>)
        \o (IF alias # NoneStr
            THEN _check_alias(cfg, full_imported_object_path, alias, i)
            ELSE <<>>)

RECURSIVE FromLoop(_, _, _, _, _)
\* the loop of _check_import_from: what was yielded stays yielded when the loop
\* returns at a wildcard
FromLoop(cfg, t, node, r, i) ==
    IF i > Len(node.children) THEN <<>>
    ELSE IF t[node.children[i]].name = "*" THEN <<>>
    ELSE FromName(cfg, t, node, r, i) \o FromLoop(cfg, t, node, r, i + 1)

RECURSIVE Dots(_)
\* '.' * level
Dots(level) == IF level = 0 THEN "" ELSE "." \o Dots(level - 1)

\* [p for p in self._filename.split('/') if p != '.']
PathParts(fname) == SelectSeq(Split(fname, "/"), LAMBDA p : p # ".")

\* parts[: -level], for level > 0
DropLast(parts, level) ==
    IF level >= Len(parts) THEN <<>> ELSE SubSeq(parts, 1, Len(parts) - level)

\* the package path a relative import starts from, with node.module appended
RelativeSourceModule(fname, node) ==
    LET source_module == Join(".", DropLast(PathParts(fname), node.level))
    IN  IF node.module # NoneStr THEN source_module \o "." \o node.module
        ELSE source_module

\* the turn gated, as in _check_import_from, by the rule resolved for the
\* synthesized package path
RelativeNameByOrigin(cfg, t, node, source_module, i) ==
    LET imported_object_alias == t[node.children[i]]
        imported_object == imported_object_alias.name
        full_imported_object_path == source_module \o "." \o imported_object
        cite == "from " \o Dots(node.level)
                \o (IF node.module # NoneStr THEN node.module ELSE "")
                \o " import " \o imported_object
        alias == imported_object_alias.asname
        r == _get_config_and_error_template(cfg, source_module)
    IN  (IF _is_module(full_imported_object_path)
         THEN IF ~r.source_config.allow_from_module
              THEN <<Yield(Format(RELATIVE_IMPORT_VIOLATION, <<cite>>), i, "rule")>>
              ELSE <<>>
         ELSE IF ~r.source_config.allow_from_member
              THEN <<Yield(Format(RELATIVE_IMPORT_VIOLATION, <<cite>>), i, "rule")>>
              ELSE <<>>)
        \o (IF alias # NoneStr
            THEN _check_alias(cfg, full_imported_object_path, alias, i)
            ELSE <<>>)

\* one turn of the loop of _check_relative_import, for node.names[i]
RelativeName(cfg, t, node, source_module, i) ==
    LET imported_object_alias == t[node.children[i]]
        imported_object == imported_object_alias.name
        full_imported_object_path == source_module \o "." \o imported_object
        cite == "from " \o Dots(node.level)
                \o (IF node.module # NoneStr THEN node.module ELSE "")
                \o " import " \o imported_object
        alias == imported_object_alias.asname
    IN  (IF _is_module(full_imported_object_path)
         THEN IF ~cfg.allow_relative_from_module
              THEN <<Yield(Format(RELATIVE_IMPORT_VIOLATION, <<cite>>), i, "rule")>>
              ELSE <<>>
         ELSE IF ~cfg.allow_relative_from_member
              THEN <<Yield(Format(RELATIVE_IMPORT_VIOLATION, <<cite>>), i, "rule")>>
              ELSE <<>>)
        \o (IF alias # NoneStr
            THEN _check_alias(cfg, full_imported_object_path, alias, i)
            ELSE <<>>)

RECURSIVE RelativeLoop(_, _, _, _, _)
RelativeLoop(cfg, t, node, source_module, i) ==
    IF i > Len(node.children) THEN <<>>
    ELSE IF t[node.children[i]].name = "*" THEN <<>>
    ELSE RelativeName(cfg, t, node, source_module, i)
         \o RelativeLoop(cfg, t, node, source_module, i + 1)

\* _check_relative_import is a generator function (its body holds yield): the
\* statement `return iter(RELATIVE_IMPORT_VIOLATION)` ends the generator, and the
\* iterator it names becomes the value of the caller's `yield from` expression,
\* which the caller drops.  Nothing is yielded for a node beyond the limit.
_check_relative_import(cfg, fname, t, node) ==
    IF node.level > cfg.max_relative_level THEN <<>>
    ELSE RelativeLoop(cfg, t, node, RelativeSourceModule(fname, node), 1)

_check_import_from(cfg, fname, t, node) ==
    IF node.level > 0 THEN _check_relative_import(cfg, fname, t, node)
    ELSE FromLoop(cfg, t, node, _get_config_and_error_template(cfg, node.module), 1)

-----------------------------------------------------------------------------
(* Plugin.run *)

\* self._filename.endswith(suffix).  A file name is a sequence of tokens, and
\* the suffix asked for is one token: no other token holds a part of it.
EndsWith(fname, suffix) == fname # <<>> /\ fname[Len(fname)] = suffix

\* the guard with the flag read the other way
SkipsFileWhenChecked(cfg, fname) == EndsWith(fname, "__init__.py") /\ cfg.check_init

\* the guard of the early return of run
SkipsFile(cfg, fname) == EndsWith(fname, "__init__.py") /\ ~cfg.check_init

\* a depth-first walk: the children go to the front of the queue
WalkStepDepthFirst(queue, children) == children \o Tail(queue)

\* ast.walk: todo.popleft(), then todo.extend(iter_child_nodes(node))
WalkStep(queue, children) == Tail(queue) \o children

\* the tuples run yields for one node's messages
Tuples(node, errors) ==
    [k \in 1..Len(errors) |->
        [line |-> node.lineno, col |-> node.col_offset, msg |-> errors[k].msg]]

Origins(id, errors) ==
    [k \in 1..Len(errors) |->
        [node |-> id, name |-> errors[k].name, kind |-> errors[k].kind]]

RunSkip ==
    /\ pc = "start"
    /\ SkipsFile(config, filename)
    /\ pc' = "done"
    /\ UNCHANGED <<config, filename, tree, todo, out, hist, mergeVars, optVars>>

RunStart ==
    /\ pc = "start"
    /\ ~SkipsFile(config, filename)
    /\ pc' = "walk"
    /\ todo' = <<1>>
    /\ UNCHANGED <<config, filename, tree, out, hist, mergeVars, optVars>>

Emit(id, errors) ==
    /\ out' = out \o Tuples(tree[id], errors)
    /\ hist' = hist \o Origins(id, errors)

VisitImport ==
    /\ pc = "walk"
    /\ todo # <<>>
    /\ tree[Head(todo)].type = "Import"
    /\ Emit(Head(todo), _check_absolute_import(config, tree, tree[Head(todo)]))
    /\ todo' = WalkStep(todo, tree[Head(todo)].children)
    /\ UNCHANGED <<config, filename, tree, pc, mergeVars, optVars>>

VisitImportFrom ==
    /\ pc = "walk"
    /\ todo # <<>>
    /\ tree[Head(todo)].type = "ImportFrom"
    /\ Emit(Head(todo), _check_import_from(config, filename, tree, tree[Head(todo)]))
    /\ todo' = WalkStep(todo, tree[Head(todo)].children)
    /\ UNCHANGED <<config, filename, tree, pc, mergeVars, optVars>>

VisitOther ==
    /\ pc = "walk"
    /\ todo # <<>>
    /\ tree[Head(todo)].type \notin {"Import", "ImportFrom"}
    /\ todo' = WalkStep(todo, tree[Head(todo)].children)
    /\ UNCHANGED <<config, filename, tree, pc, out, hist, mergeVars, optVars>>

RunEnd ==
    /\ pc = "walk"
    /\ todo = <<>>
    /\ pc' = "done"
    /\ UNCHANGED <<config, filename, tree, todo, out, hist, mergeVars, optVars>>

-----------------------------------------------------------------------------
(* The files a run is tried on *)

\* names in one import statement
MaxNames == 2
\* leading dots of a relative import, and the largest max_relative_level tried
MaxLevel == 2
\* import statements in one file
MaxStmts == 2
\* blocks (def, if) around an import statement
MaxDepth == 1

AstNode(type, lineno, col_offset, children, module, level, name, asname) ==
    [type |-> type, lineno |-> lineno, col_offset |-> col_offset,
     children |-> children, module |-> module, level |-> level,
     name |-> name, asname |-> asname]

Alias(name, asname) == [name |-> name, asname |-> asname]

Stmt(type, module, level, names) ==
    [type |-> type, module |-> module, level |-> level, names |-> names]

RECURSIVE Build(_, _, _, _)
\* ast.parse of a file whose top-level statements are, in order, items[k].stmt
\* inside items[k].depth nested blocks.  Node 1 is the Module; a statement's
\* ast.alias nodes are its children.
Build(items, nodes, tops, line) ==
    IF items = <<>>
    THEN [nodes EXCEPT ![1] =
            AstNode("Module", 0, 0, tops, NoneStr, 0, NoneStr, NoneStr)]
    ELSE LET d    == Head(items).depth
             st   == Head(items).stmt
             n    == Len(st.names)
             base == Len(nodes)
             blocks == [k \in 1..d |->
                 AstNode(IF k % 2 = 1 THEN "FunctionDef" ELSE "If",
                         line + k - 1, 4 * (k - 1), <<base + k + 1>>,
                         NoneStr, 0, NoneStr, NoneStr)]
             stmtNode ==
                 AstNode(st.type, line + d, 4 * d,
                         [j \in 1..n |-> base + d + 1 + j],
                         st.module, st.level, NoneStr, NoneStr)
             aliases == [j \in 1..n |->
                 AstNode("alias", line + d, 4 * d, <<>>, NoneStr, 0,
                         st.names[j].name, st.names[j].asname)]
         IN  Build(Tail(items), nodes \o blocks \o <<stmtNode>> \o aliases,
                   Append(tops, base + 1), line + d + 1)

Parse(items) == Build(items, <<AstNode("Module", 0, 0, <<>>, NoneStr, 0, NoneStr, NoneStr)>>, <<>>, 1)

NameLists(entries) == UNION {[1..n -> entries] : n \in 1..MaxNames}

ImportStmts ==
    {Stmt("Import", NoneStr, 0, l) :
        l \in NameLists({Alias(n, a) : n \in {"os", "os.path", "pytest"},
                                       a \in {NoneStr, "al"}})}

\* os.path and pkg.path are modules, os.name and pkg.name are members
FromEntries ==
    {Alias("path", NoneStr), Alias("path", "al"), Alias("name", NoneStr),
     Alias("*", NoneStr)}

ImportFromStmts ==
    {Stmt("ImportFrom", m, 0, l) :
        m \in {"os", "os.path", "pkg"}, l \in NameLists(FromEntries)}

\* from-imports of the two other origins; neither module has a submodule
OriginStmts ==
    {Stmt("ImportFrom", m, 0, l) :
        m \in {"__future__", "pytest"}, l \in NameLists(FromEntries)}

RelativeStmts ==
    {Stmt("ImportFrom", m, lv, l) :
        m \in {NoneStr, "local"}, lv \in 1..MaxLevel, l \in NameLists(FromEntries)}

\* config.Config(overrides, registered_aliases) with the defaults of its fields
DefaultConfig ==
    [overrides |-> EmptyDict,
     registered_aliases |-> EmptyDict,
     check_init |-> FALSE,
     future |-> FutureDefault,
     stdlib |-> Rule(TRUE, FALSE, FALSE),
     third_party |-> Rule(TRUE, FALSE, FALSE),
     first_party |-> Rule(TRUE, TRUE, FALSE),
     max_relative_level |-> 1,
     allow_relative_from_module |-> TRUE,
     allow_relative_from_member |-> FALSE]

\* The rules of the three origins: the standard library's rule takes every
\* value, and the other two differ from it, so that a rule taken from the wrong
\* origin shows.
Negated(r) == [k \in Fields |-> ~r[k]]
Rotated(r) == Rule(r.allow_from_module, r.allow_from_member, r.allow_absolute)

WithRules(cfg, r, order) ==
    CASE order = 1 -> [cfg EXCEPT !.stdlib = r, !.third_party = Negated(r),
                                  !.first_party = Rotated(r)]
      [] order = 2 -> [cfg EXCEPT !.stdlib = Negated(r), !.third_party = r,
                                  !.first_party = Rotated(Negated(r))]

RuleConfigs ==
    {DefaultConfig} \cup {WithRules(DefaultConfig, r, 1) : r \in SourceConfigs}

\* override tables: none, or one module with one of the given fields set
OverrideTables(fields) ==
    {EmptyDict} \cup
    {[k \in {m} |-> Override([f \in {fld} |-> b])] :
        m \in {"os", "os.path"}, fld \in fields, b \in BOOLEAN}

AliasTables(paths) ==
    {EmptyDict} \cup {[k \in {p} |-> a] : p \in paths, a \in {"al", "zz"}}

\* configurations for plain imports: the overrides set the field these read,
\* or another one
ImportConfigs ==
    {[c EXCEPT !.overrides = ot, !.registered_aliases = rt] :
        c \in RuleConfigs,
        ot \in OverrideTables({"allow_absolute"})
               \cup {[k \in {"os"} |-> Override([f \in {"allow_from_member"} |-> TRUE])]},
        rt \in AliasTables({"os.path"})}

\* configurations for from-imports
FromConfigs ==
    {[c EXCEPT !.overrides = ot, !.registered_aliases = rt] :
        c \in RuleConfigs,
        ot \in OverrideTables({"allow_from_module", "allow_from_member"})
               \cup {[k \in {"os"} |-> Override([f \in {"allow_absolute"} |-> FALSE])]},
        rt \in AliasTables({"os.path"})}

\* configurations for the from-imports of __future__ and of third party: the
\* rule of __future__ takes every value, by the field or by an override
OriginConfigs ==
    {[DefaultConfig EXCEPT !.future = r, !.third_party = Negated(r),
                           !.overrides = ot] :
        r \in SourceConfigs,
        ot \in {EmptyDict,
                [k \in {"__future__"} |-> Override([f \in {"allow_from_member"} |-> FALSE])],
                [k \in {"pytest"} |-> Override([f \in {"allow_from_member"} |-> TRUE])]}}

\* an override of every package path a relative import of the files below
\* starts from, set against the defaults of the relative flags
RelativeOverrides ==
    [k \in {"", "pkg", "pkg.local", "local"} |->
        Override([f \in {"allow_from_module", "allow_from_member"} |->
                    f = "allow_from_member"])]

RelativeConfigs ==
    {[c EXCEPT !.registered_aliases = rt,
               !.max_relative_level = lv,
               !.allow_relative_from_module = m,
               !.allow_relative_from_member = b] :
        c \in {DefaultConfig,
               [WithRules(DefaultConfig, Rule(FALSE, FALSE, FALSE), 1)
                    EXCEPT !.overrides = RelativeOverrides]},
        rt \in AliasTables({"pkg.local.path"}),
        lv \in 0..MaxLevel, m \in BOOLEAN, b \in BOOLEAN}

PlainFile == <<"pkg", "/", "mod.py">>

FileNames ==
    {PlainFile,
     <<"mod.py">>,
     <<".", "/", "pkg", "/", "sub", "/", "mod.py">>,
     <<"pkg", "/", "__init__.py">>,
     <<"__init__.py">>,
     <<"pkg", "/", "my", "__init__.py">>}

\* the statements of the files with several statements
ManyStmts ==
    {Stmt("Import", NoneStr, 0, <<Alias("os", "al")>>),
     Stmt("ImportFrom", "pkg", 0, <<Alias("name", NoneStr)>>),
     Stmt("ImportFrom", NoneStr, 1, <<Alias("name", NoneStr)>>)}

Items == {[stmt |-> st, depth |-> d] : st \in ManyStmts, d \in 0..MaxDepth}

ItemLists == UNION {[1..n -> Items] : n \in 1..MaxStmts}

ManyConfigs ==
    {[c EXCEPT !.check_init = i] :
        c \in {DefaultConfig, WithRules(DefaultConfig, Rule(FALSE, FALSE, FALSE), 2)},
        i \in BOOLEAN}

IdleMerge ==
    /\ ov = Override(EmptyDict)
    /\ sc = SourceConfig(EmptyDict)
    /\ upd = EmptyDict
    /\ merged = EmptyDict
    /\ mpc = "idle"

IdleOptions ==
    /\ options = DefaultOptions
    /\ cls_config = <<>>
    /\ opc = "idle"

IdleRun ==
    /\ config = DefaultConfig
    /\ filename = PlainFile
    /\ tree = Parse(<<>>)
    /\ pc = "idle"
    /\ todo = <<>>
    /\ out = <<>>
    /\ hist = <<>>

\* one statement at the top level of an ordinary file, under many configurations
InitOneImport ==
    /\ \E st \in ImportStmts : tree = Parse(<<[stmt |-> st, depth |-> 0]>>)
    /\ config \in ImportConfigs
    /\ filename = PlainFile

InitOneFrom ==
    /\ \E st \in ImportFromStmts : tree = Parse(<<[stmt |-> st, depth |-> 0]>>)
    /\ config \in FromConfigs
    /\ filename = PlainFile

InitOneOrigin ==
    /\ \E st \in OriginStmts : tree = Parse(<<[stmt |-> st, depth |-> 0]>>)
    /\ config \in OriginConfigs
    /\ filename = PlainFile

InitOneRelative ==
    /\ \E st \in RelativeStmts : tree = Parse(<<[stmt |-> st, depth |-> 0]>>)
    /\ config \in RelativeConfigs
    /\ filename = PlainFile

\* several statements, nested or not, in files of every name
InitManyStmts ==
    /\ \E items \in ItemLists : tree = Parse(items)
    /\ config \in ManyConfigs
    /\ filename \in FileNames

InitRun ==
    /\ InitOneImport \/ InitOneFrom \/ InitOneOrigin \/ InitOneRelative
       \/ InitManyStmts
    /\ pc = "start"
    /\ todo = <<>>
    /\ out = <<>>
    /\ hist = <<>>

Init == InitRun /\ IdleMerge /\ IdleOptions

InitMergeOnly == InitMerge /\ IdleOptions /\ IdleRun

InitOptionsOnly == InitOptions /\ IdleMerge /\ IdleRun

Next ==
    \/ RunSkip
    \/ RunStart
    \/ VisitImport
    \/ VisitImportFrom
    \/ VisitOther
    \/ RunEnd

Spec == Init /\ [][Next]_vars

SpecMerge == InitMergeOnly /\ [][NextMerge]_vars

SpecOptions == InitOptionsOnly /\ [][NextOptions]_vars

-----------------------------------------------------------------------------
(* Reading a run's output *)

\* run has gone through the whole tree
Finished == pc = "done" /\ ~SkipsFile(config, filename)

ImportNodes == {id \in DOMAIN tree : tree[id].type \in {"Import", "ImportFrom"}}

\* the positions of out that node id, and its name i, made
NodeIdx(id) == {k \in 1..Len(out) : hist[k].node = id}
NameIdx(id, i) == {k \in NodeIdx(id) : hist[k].name = i}

RECURSIVE Pick(_, _, _)
\* the elements of sequence s at the positions from k on that node id made
Pick(s, id, k) ==
    IF k > Len(s) THEN <<>>
    ELSE (IF hist[k].node = id THEN <<s[k]>> ELSE <<>>) \o Pick(s, id, k + 1)

\* what the check of node id yields under configuration cfg
CheckNode(cfg, id) ==
    IF tree[id].type = "Import" THEN _check_absolute_import(cfg, tree, tree[id])
    ELSE _check_import_from(cfg, filename, tree, tree[id])

Names(id) == [i \in 1..Len(tree[id].children) |-> tree[tree[id].children[i]]]

HasWildcard(id) == \E i \in 1..Len(tree[id].children) : Names(id)[i].name = "*"

\* the rule of the origin of module path m, before any override
BaseRule(cfg, m) ==
    CASE place_module(m) = "FUTURE"     -> cfg.future
      [] place_module(m) = "STDLIB"     -> cfg.stdlib
      [] place_module(m) = "THIRDPARTY" -> cfg.third_party
      [] place_module(m) = "FIRSTPARTY" -> cfg.first_party

\* the module paths the statements resolve a policy for
ModulePaths == {"__future__", "os", "os.path", "pytest", "pkg", "pkg.path"}

\* the module paths node id resolves a policy for
ResolvedPaths(id) ==
    IF tree[id].type = "Import"
    THEN {Names(id)[i].name : i \in 1..Len(tree[id].children)}
    ELSE IF tree[id].level = 0 THEN {tree[id].module} ELSE {}

-----------------------------------------------------------------------------
(* C1: a relative from-import beyond max_relative_level yields exactly one   *)
(* FIP004 for the whole node, whatever the number of its names, and nothing  *)
(* else; within the limit no depth violation is yielded and every violation  *)
(* belongs to one of the node's names.                                       *)
C1_OneDepthViolation ==
    Finished =>
      \A id \in ImportNodes :
        (tree[id].type = "ImportFrom" /\ tree[id].level > 0) =>
          IF tree[id].level > config.max_relative_level
          THEN /\ Cardinality(NodeIdx(id)) = 1
               /\ \A k \in NodeIdx(id) :
                     /\ out[k].msg[1] = "FIP004"
                     /\ hist[k].kind # "alias"
          ELSE \A k \in NodeIdx(id) :
                  hist[k].name \in 1..Len(tree[id].children)

-----------------------------------------------------------------------------
(* C2: Override.__or__ and Override.evolve decide each field on its own: the *)
(* override's value where it is set and the source config's value where it   *)
(* is not; the update's value where it gives one and the override's own      *)
(* where it does not.                                                        *)
C2_MergeFieldwise ==
    /\ mpc = "or" =>
          \A f \in Fields :
             merged[f] = IF ov[f] = None THEN sc[f] ELSE ov[f][1]
    /\ mpc = "evolve" =>
          \A f \in Fields :
             merged[f] = IF f \in DOMAIN upd THEN Some(upd[f]) ELSE ov[f]

\* a force-false field wins over a true base while an unset field keeps a true base
C2_Witness ==
    /\ mpc = "or"
    /\ ov["allow_absolute"] = Some(FALSE) /\ sc["allow_absolute"]
    /\ ov["allow_from_member"] = None /\ sc["allow_from_member"]
    /\ ov["allow_from_module"] = Some(TRUE) /\ ~sc["allow_from_module"]
    /\ merged = Rule(FALSE, TRUE, TRUE)

-----------------------------------------------------------------------------
(* C3: the rule a module path resolves to is the override keyed by exactly   *)
(* that path laid over the rule of the path's origin, and the origin's rule  *)
(* as it is when no override has that key; an import none of whose paths is  *)
(* a key of the override table yields what it yields without the table.      *)
C3_ExactOverride ==
    /\ \A m \in ModulePaths :
          LET rule == _get_config_and_error_template(config, m).source_config
          IN  \A f \in Fields :
                 rule[f] = IF m \in DOMAIN config.overrides
                              /\ config.overrides[m][f] # None
                           THEN config.overrides[m][f][1]
                           ELSE BaseRule(config, m)[f]
    /\ Finished =>
          \A id \in ImportNodes :
             (ResolvedPaths(id) \cap DOMAIN config.overrides = {}) =>
                Pick(out, id, 1) =
                   Tuples(tree[id], CheckNode([config EXCEPT !.overrides = EmptyDict], id))

\* base allow_from_member false, override {os: allow_from_member true}:
\* a member from os.path is still a violation
C3_Witness ==
    /\ Finished
    /\ ~config.stdlib.allow_from_member
    /\ DOMAIN config.overrides = {"os"}
    /\ config.overrides["os"] = Override([f \in {"allow_from_member"} |-> TRUE])
    /\ \E id \in ImportNodes :
          /\ tree[id].type = "ImportFrom" /\ tree[id].level = 0
          /\ tree[id].module = "os.path"
          /\ Len(tree[id].children) = 1
          /\ Names(id)[1].name = "name" /\ Names(id)[1].asname = NoneStr
          /\ Pick(out, id, 1) =
                <<[line |-> tree[id].lineno, col |-> tree[id].col_offset,
                   msg |-> <<"FIP001", "from os.path import name">>]>>

\* the other half of the example: the member from os itself yields nothing
C3_WitnessOverridden ==
    /\ Finished
    /\ ~config.stdlib.allow_from_member
    /\ DOMAIN config.overrides = {"os"}
    /\ config.overrides["os"] = Override([f \in {"allow_from_member"} |-> TRUE])
    /\ \E id \in ImportNodes :
          /\ tree[id].type = "ImportFrom" /\ tree[id].level = 0
          /\ tree[id].module = "os"
          /\ Len(tree[id].children) = 1
          /\ Names(id)[1].name = "name" /\ Names(id)[1].asname = NoneStr
          /\ NodeIdx(id) = {}

-----------------------------------------------------------------------------
(* C4: a checked name yields FIP005, naming its canonical path and its alias, *)
(* exactly when it carries an alias that the registry does not hold for that *)
(* path; the rules do not change what the alias check yields and the         *)
(* registry does not change what the rule check yields.                      *)

\* the names of node id that its loop reaches
CheckedNames(id) ==
    IF tree[id].type = "Import" THEN 1..Len(tree[id].children)
    ELSE IF tree[id].level > config.max_relative_level THEN {}
    ELSE {i \in 1..Len(tree[id].children) : \A j \in 1..i : Names(id)[j].name # "*"}

\* module path of a plain import, module.name of a from-import, the package
\* path of the file with the name appended for a relative import
Canonical(id, i) ==
    IF tree[id].type = "Import" THEN Names(id)[i].name
    ELSE IF tree[id].level = 0 THEN tree[id].module \o "." \o Names(id)[i].name
    ELSE RelativeSourceModule(filename, tree[id]) \o "." \o Names(id)[i].name

RECURSIVE PickKind(_, _, _)
\* the messages node id yielded from check `kind`, from position k on
PickKind(id, kind, k) ==
    IF k > Len(out) THEN <<>>
    ELSE (IF hist[k].node = id /\ hist[k].kind = kind THEN <<out[k].msg>> ELSE <<>>)
         \o PickKind(id, kind, k + 1)

\* the messages of check `kind` among what a check yields
OfKind(errors, kind) ==
    LET sel == SelectSeq(errors, LAMBDA e : e.kind = kind)
    IN  [k \in 1..Len(sel) |-> sel[k].msg]

\* the same configuration with every allow flag the other way and no override
FlagsFlipped(cfg) ==
    [cfg EXCEPT !.overrides = EmptyDict,
                !.future = Negated(cfg.future),
                !.stdlib = Negated(cfg.stdlib),
                !.third_party = Negated(cfg.third_party),
                !.first_party = Negated(cfg.first_party),
                !.allow_relative_from_module = ~cfg.allow_relative_from_module,
                !.allow_relative_from_member = ~cfg.allow_relative_from_member]

-----------------------------------------------------------------------------
-----------------------------------------------------------------------------
(* C6: with check_init false a file whose last path component is __init__.py *)
(* yields nothing; with check_init true every import node of the file yields *)
(* what its check yields, as in any other file.                              *)

\* the last component of the path is exactly __init__.py
IsInitFile(fname) ==
    LET parts == Split(fname, "/") IN parts[Len(parts)] = "__init__.py"

\* C6: an __init__.py yields nothing unless check_init is set, and is then
\* checked node by node like any file
C6_SkipRule ==
    /\ (pc = "done" /\ IsInitFile(filename) /\ ~config.check_init) => out = <<>>
    /\ (pc = "done" /\ config.check_init) =>
          \A id \in ImportNodes :
             Pick(out, id, 1) = Tuples(tree[id], CheckNode(config, id))

\* an __init__.py whose imports break the policy, passed over
C6_Witness ==
    /\ pc = "done"
    /\ filename = <<"pkg", "/", "__init__.py">>
    /\ ~config.check_init
    /\ out = <<>>
    /\ \E id \in ImportNodes : CheckNode(config, id) # <<>>

-----------------------------------------------------------------------------
(* C7: for every list of well-formed override strings parse_options ends     *)
(* without error, and the override table it builds maps each named module to *)
(* an Override holding True for each axis allowed, False for each axis       *)
(* forbidden and nothing for the axes not named, the strings of one module   *)
(* adding up.                                                                *)

\* the positions of the list that name field f of module m
Naming(list, m, f) ==
    {i \in 1..Len(list) :
        LET parts == Split(list[i], "-")
        IN  parts[1] = m /\ "allow_" \o Join("_", SubSeq(parts, 3, Len(parts))) = f}

Largest(S) == CHOOSE i \in S : \A j \in S : j <= i

\* C7: parse_options ends without error with the override table the strings spell
C7_OverridesParsed ==
    opc # "ready" =>
      /\ opc = "done"
      /\ LET list  == options.import_policy_overrides
             table == cls_config[1].overrides
         IN  /\ DOMAIN table = {Split(list[i], "-")[1] : i \in 1..Len(list)}
             /\ \A m \in DOMAIN table : \A f \in Fields :
                   table[m][f] =
                      IF Naming(list, m, f) = {} THEN None
                      ELSE Some(Split(list[Largest(Naming(list, m, f))], "-")[2] = "allow")

-----------------------------------------------------------------------------
(* C8: a plain import of a standard-library or third-party module yields     *)
(* exactly one FIP001 or FIP002 at the node's line and column when the       *)
(* effective allow_absolute of the module path is false, and no violation    *)
(* when it is true; under the default configuration it yields nothing.       *)

EffectiveAllowAbsolute(m) ==
    IF m \in DOMAIN config.overrides /\ config.overrides[m].allow_absolute # None
    THEN config.overrides[m].allow_absolute[1]
    ELSE BaseRule(config, m).allow_absolute

OriginCode(m) == IF place_module(m) = "STDLIB" THEN "FIP001" ELSE "FIP002"

\* the pairs of a plain import node and the position of one of its names that
\* isort places in the standard library or in third party
PlainImports ==
    UNION {{<<id, i>> : i \in {j \in 1..Len(tree[id].children) :
                                 place_module(Names(id)[j].name)
                                    \in {"STDLIB", "THIRDPARTY"}}} :
           id \in {n \in ImportNodes : tree[n].type = "Import"}}

RuleTuple(id, i) ==
    [line |-> tree[id].lineno, col |-> tree[id].col_offset,
     msg |-> <<OriginCode(Names(id)[i].name), Names(id)[i].name>>]

\* C8 as it stands: one FIP001/FIP002 when allow_absolute is false, no violation
\* at all when it is true, nothing under the default configuration
C8_PlainImport ==
    Finished =>
      \A p \in PlainImports :
        LET id == p[1]
            i  == p[2]
        IN  /\ IF ~EffectiveAllowAbsolute(Names(id)[i].name)
               THEN /\ Cardinality(NameIdx(id, i)) = 1
                    /\ \A k \in NameIdx(id, i) : out[k] = RuleTuple(id, i)
               ELSE NameIdx(id, i) = {}
            /\ config = DefaultConfig => NameIdx(id, i) = {}

\* the positions of out that the rule check of name i of node id made
RuleIdx(id, i) == {k \in NameIdx(id, i) : hist[k].kind = "rule"}

\* C8 as amended: one FIP001 or FIP002 or none, by the effective allow_absolute;
\* whatever else the import yields is the FIP005 of its alias, so that an import
\* without an alias yields nothing else
C8_PlainImportAmended ==
    Finished =>
      \A p \in PlainImports :
        LET id == p[1]
            i  == p[2]
        IN  /\ IF ~EffectiveAllowAbsolute(Names(id)[i].name)
               THEN /\ Cardinality(RuleIdx(id, i)) = 1
                    /\ \A k \in RuleIdx(id, i) : out[k] = RuleTuple(id, i)
               ELSE RuleIdx(id, i) = {}
            /\ \A k \in NameIdx(id, i) \ RuleIdx(id, i) :
                  /\ Names(id)[i].asname # NoneStr
                  /\ out[k].msg[1] = "FIP005"
            /\ config = DefaultConfig => RuleIdx(id, i) = {}

\* `import os` with the standard library's allow_absolute false
C8_Witness ==
    /\ Finished
    /\ ~config.stdlib.allow_absolute
    /\ config.overrides = EmptyDict
    /\ \E id \in ImportNodes :
          /\ tree[id].type = "Import"
          /\ Len(tree[id].children) = 1
          /\ Names(id)[1].name = "os" /\ Names(id)[1].asname = NoneStr
          /\ out = <<[line |-> tree[id].lineno, col |-> tree[id].col_offset,
                      msg |-> <<"FIP001", "os">>]>>

-----------------------------------------------------------------------------
(* C9: the violations of one statement come name by name in the order of the *)
(* names; a name's rule violation comes immediately before its alias         *)
(* violation; each carries the line and column of the statement.             *)
C9_OrderInNode ==
    /\ \A k \in 1..Len(out) :
          LET id == hist[k].node
              nm == Names(id)[hist[k].name]
          IN  /\ out[k].line = tree[id].lineno
              /\ out[k].col = tree[id].col_offset
              /\ (hist[k].kind = "alias") <=> (out[k].msg[1] = "FIP005")
              /\ hist[k].kind = "alias" => out[k].msg[3] = nm.asname
              /\ (hist[k].kind = "rule" /\ tree[id].type = "Import"
                    /\ Len(out[k].msg) > 1) => out[k].msg[2] = nm.name
              /\ (hist[k].kind = "rule" /\ tree[id].type = "ImportFrom"
                    /\ tree[id].level = 0 /\ Len(out[k].msg) > 1) =>
                    out[k].msg[2] = "from " \o tree[id].module \o " import " \o nm.name
    /\ \A k, l \in 1..Len(out) :
          (k < l /\ hist[k].node = hist[l].node) =>
             /\ hist[k].name <= hist[l].name
             /\ hist[k].name = hist[l].name =>
                   /\ l = k + 1
                   /\ hist[k].kind = "rule"
                   /\ hist[l].kind = "alias"

\* two names, the first with a rule and an alias violation, then the second's
C9_Witness ==
    /\ Finished
    /\ Len(out) >= 3
    /\ hist[1].node = hist[3].node
    /\ hist[1].name = 1 /\ hist[1].kind = "rule"
    /\ hist[2].name = 1 /\ hist[2].kind = "alias"
    /\ hist[3].name = 2

-----------------------------------------------------------------------------
(* C10: run visits every import node once, and in document order: the        *)
(* violations of a node come before those of every node later in the source. *)

RECURSIVE Depth(_)
\* how many nodes lie above node id
Depth(id) ==
    IF id = 1 THEN 0
    ELSE 1 + Depth(CHOOSE p \in DOMAIN tree :
                      \E j \in 1..Len(tree[p].children) : tree[p].children[j] = id)

\* what a finished run holds of a node is what one check of the node yields
EveryNodeOnce ==
    Finished =>
      \A id \in ImportNodes : Pick(out, id, 1) = Tuples(tree[id], CheckNode(config, id))

\* C10 as it stands: every import node once, violations in document order
C10_DocumentOrder ==
    /\ EveryNodeOnce
    /\ \A k, l \in 1..Len(out) :
          k < l => tree[hist[k].node].lineno <= tree[hist[l].node].lineno

\* C10 as amended: every import node once, breadth first: the less deeply
\* nested node first and nodes of one depth in document order
C10_BreadthFirstOrder ==
    /\ EveryNodeOnce
    /\ \A k, l \in 1..Len(out) :
          k < l =>
             \/ Depth(hist[k].node) < Depth(hist[l].node)
             \/ /\ Depth(hist[k].node) = Depth(hist[l].node)
                /\ tree[hist[k].node].lineno <= tree[hist[l].node].lineno

\* an import inside a block reported after the top-level import that follows it
C10_Witness ==
    /\ Finished
    /\ \E k, l \in 1..Len(out) :
          /\ k < l
          /\ tree[hist[k].node].lineno > tree[hist[l].node].lineno
          /\ Depth(hist[k].node) = 1
          /\ Depth(hist[l].node) = 2


-----------------------------------------------------------------------------
(* C11: a from-import at level 0 without a wildcard yields, for each of its  *)
(* names, exactly one violation of the base module's origin citing           *)
(* `from module import name` when the flag selected for module.name is false *)
(* in the effective rule of the base module, and none when it is true.       *)

\* the from-imports at level 0 that name no wildcard
AbsoluteFroms ==
    {id \in ImportNodes :
        tree[id].type = "ImportFrom" /\ tree[id].level = 0 /\ ~HasWildcard(id)}

\* the flag that decides name i of node id: by what module.name is
SelectedField(id, i) ==
    IF (tree[id].module \o "." \o Names(id)[i].name) \in ImportableModules
    THEN "allow_from_module"
    ELSE "allow_from_member"

\* field f of the rule of the origin of m with the override of exactly m over it
EffectiveFlag(m, f) ==
    IF m \in DOMAIN config.overrides /\ config.overrides[m][f] # None
    THEN config.overrides[m][f][1]
    ELSE BaseRule(config, m)[f]

FromOriginCode(m) ==
    CASE place_module(m) = "FUTURE"     -> "FIP000"
      [] place_module(m) = "STDLIB"     -> "FIP001"
      [] place_module(m) = "THIRDPARTY" -> "FIP002"
      [] place_module(m) = "FIRSTPARTY" -> "FIP003"

FromCite(id, i) == "from " \o tree[id].module \o " import " \o Names(id)[i].name

\* `from pkg import path, name` alone in a file: pkg.path is a module, pkg.name
\* a member
IsSubmoduleAndMember(id) ==
    /\ tree[id].module = "pkg" /\ tree[id].level = 0
    /\ Len(tree[id].children) = 2 /\ Len(tree[1].children) = 1
    /\ Names(id)[1] = [Names(id)[1] EXCEPT !.name = "path", !.asname = NoneStr]
    /\ Names(id)[2] = [Names(id)[2] EXCEPT !.name = "name", !.asname = NoneStr]

MemberOnly(id) ==
    <<[line |-> tree[id].lineno, col |-> tree[id].col_offset,
       msg |-> <<"FIP003", "from pkg import name">>]>>

-----------------------------------------------------------------------------
(* C12: a relative from-import within the depth limit and without a wildcard *)
(* yields, for each name, one FIP004 citing the import when the global flag  *)
(* for what package.name is (module or member) is false, and none when it is *)
(* true; no rule of an origin and no override changes what it yields.        *)

\* the relative from-imports within the limit that name no wildcard
RelativeFroms ==
    {id \in ImportNodes :
        /\ tree[id].type = "ImportFrom"
        /\ tree[id].level > 0
        /\ tree[id].level <= config.max_relative_level
        /\ ~HasWildcard(id)}

\* the global flag that decides name i of node id
RelativeFlag(id, i) ==
    IF Canonical(id, i) \in ImportableModules
    THEN config.allow_relative_from_module
    ELSE config.allow_relative_from_member

RelativeCite(id, i) ==
    "from " \o Dots(tree[id].level)
            \o (IF tree[id].module = NoneStr THEN "" ELSE tree[id].module)
            \o " import " \o Names(id)[i].name

\* override tables over the paths a relative import could be looked up by
OverrideChanges ==
    {EmptyDict} \cup
    {[k \in {"", "pkg", "pkg.local", "local", "pkg.sub"} |->
        Override([f \in Fields |-> b])] : b \in BOOLEAN}

\* the configuration with other rules for the origins and another override table
RulesChanged(cfg, r, ot) ==
    [cfg EXCEPT !.future = r, !.stdlib = Negated(r), !.third_party = r,
                !.first_party = Negated(r), !.overrides = ot]

\* the one statement `from .local import <name>` of pkg/mod.py
IsFromLocal(id, name) ==
    /\ filename = PlainFile
    /\ Len(tree[1].children) = 1
    /\ tree[id].level = 1 /\ tree[id].module = "local"
    /\ Len(tree[id].children) = 1
    /\ Names(id)[1].name = name /\ Names(id)[1].asname = NoneStr

C12_RelativeRule ==
    Finished =>
      \A id \in RelativeFroms :
        /\ \A i \in 1..Len(tree[id].children) :
              IF ~RelativeFlag(id, i)
              THEN /\ Cardinality(RuleIdx(id, i)) = 1
                   /\ \A k \in RuleIdx(id, i) :
                         out[k] = [line |-> tree[id].lineno,
                                   col |-> tree[id].col_offset,
                                   msg |-> <<"FIP004", RelativeCite(id, i)>>]
              ELSE RuleIdx(id, i) = {}
        /\ \A k \in NodeIdx(id) : out[k].msg[1] \in {"FIP004", "FIP005"}
        /\ \A r \in SourceConfigs, ot \in OverrideChanges :
              Pick(out, id, 1) =
                 Tuples(tree[id], CheckNode(RulesChanged(config, r, ot), id))
        /\ (config = DefaultConfig /\ IsFromLocal(id, "path")) => out = <<>>
        /\ (config = DefaultConfig /\ IsFromLocal(id, "name")) =>
              out = <<[line |-> 1, col |-> 0,
                       msg |-> <<"FIP004", "from .local import name">>]>>

\* `from .local import name` in pkg/mod.py with the flags of the defaults, the
\* rules of the origins changed and pkg.local overridden: one FIP004
C12_Witness ==
    /\ Finished
    /\ config.allow_relative_from_module /\ ~config.allow_relative_from_member
    /\ "pkg.local" \in DOMAIN config.overrides
    /\ config.overrides["pkg.local"].allow_from_member = Some(TRUE)
    /\ \E id \in RelativeFroms :
          /\ IsFromLocal(id, "name")
          /\ out = <<[line |-> 1, col |-> 0,
                      msg |-> <<"FIP004", "from .local import name">>]>>

-----------------------------------------------------------------------------
(* C13: only a file whose last path component is exactly __init__.py is      *)
(* passed over; in every other file, pkg/my__init__.py among them,           *)
(* check_init changes nothing: the finished run holds for every import node  *)
(* what its check yields, as it does with check_init true.                   *)
C13_OnlyInitExempt ==
    (pc = "done" /\ ~IsInitFile(filename)) =>
       \A id \in ImportNodes :
          Pick(out, id, 1) = Tuples(tree[id], CheckNode(config, id))

=============================================================================
